---- MODULE Spec2Model ----
(***************************************************************************)
(* A model of the gdvariant codec: the Encoder (value -> byte stream), the *)
(* Decoder (byte stream -> dynamic value tree) and the structural mapping  *)
(* of the tree onto a destination.                                          *)
(*                                                                         *)
(* Representation.                                                         *)
(*   A byte is a number in 0..255 and a stream is a sequence of bytes.     *)
(*   A 32-bit word (uint32, int32, or the bits of a float32) is held as    *)
(*   its two's complement image in -2^31 .. 2^31-1, so that every number   *)
(*   of the model fits a 32-bit integer; int32(u) and uint32(i) are then   *)
(*   the identity on images and only the byte layout is computed.          *)
(*   A 64-bit integer is [hi, lo]: lo the image of its low 32 bits, hi the *)
(*   upper 32 bits. A float64 is [f32, exact]: the bits of the nearest     *)
(*   float32 and whether the value is that float32 exactly.                *)
(*   A Go value is [type |-> its static type, v |-> its payload].          *)
(***************************************************************************)
EXTENDS Integers, Sequences, FiniteSets, TLC

VARIABLES
    buf,        \* the bytes.Buffer shared by the Encoder and the Decoder
    sent,       \* the Encode calls made, in order: value, error, bytes written
    got,        \* what each Decode call returned, in order
    threads,    \* concurrent calls: each call's position and data
    discardPaddingBuf   \* the package-level scratch buffer of discardPadding

vars == <<buf, sent, got, threads, discardPaddingBuf>>

-----------------------------------------------------------------------------
(* Tag catalog *)

IntegerType == 2
FloatType == 3
StringType == 4
Vector3Type == 7
DictionaryType == 20
ArrayType == 21
IntegerArrayType == 23
FloatArrayType == 24

-----------------------------------------------------------------------------
(* Errors: nil, or a record naming what failed *)

Nil == [code |-> "nil", detail |-> <<>>]
Err(m) == [code |-> m, detail |-> <<>>]
ErrArg(m, a) == [code |-> m, detail |-> a]
\* err != nil, of a result [.., err |-> the error]
Failed(x) == x.err.code # "nil"

-----------------------------------------------------------------------------
(* Words and bytes *)

\* 0x7FFFFFFF, the mask of the element count in a header word
CountMask == 2147483647

\* binary.LittleEndian.PutUint32 on the word whose image is x
PutUint32(x) ==
    LET low == IF x < 0 THEN (x + CountMask) + 1 ELSE x
        top == IF x < 0 THEN 128 ELSE 0
    IN  << low % 256, (low \div 256) % 256, (low \div 65536) % 256,
           ((low \div 16777216) % 128) + top >>

\* binary.LittleEndian.Uint32: the image of the word in bytes b[1..4]
Uint32(b) ==
    LET low == b[1] + 256 * b[2] + 65536 * b[3] + 16777216 * (b[4] % 128)
    IN  IF b[4] >= 128 THEN (low - CountMask) - 1 ELSE low

Int32FromBytes(b) == Uint32(b)

Float32FromBytes(b) == Uint32(b)

Take(s, n) == SubSeq(s, 1, n)
Drop(s, n) == SubSeq(s, n + 1, Len(s))

-----------------------------------------------------------------------------
(* The io.Writer behind the Encoder: e.buf is what it has accepted, e.n the  *)
(* number of Write calls made, e.failAt the call that fails (0: none),       *)
(* e.sticky whether every later call fails too, e.failed whether a call has  *)
(* failed, e.late the calls made after the first failure, and e.rev the      *)
(* order in which the runtime iterates maps during this call.                *)

NewEncoder(failAt, sticky, rev) ==
    [buf |-> <<>>, n |-> 0, failAt |-> failAt, sticky |-> sticky,
     failed |-> FALSE, late |-> 0, rev |-> rev]

Write(e, data) ==
    LET k == e.n + 1
        fails == e.failAt # 0 /\ (k = e.failAt \/ (e.sticky /\ k > e.failAt))
    IN  [e |-> [e EXCEPT !.n = k,
                         !.buf = IF fails THEN @ ELSE @ \o data,
                         !.failed = @ \/ fails,
                         !.late = IF e.failed THEN @ + 1 ELSE @],
         err |-> IF fails THEN Err("write failed") ELSE Nil]

WriteHeader(e, header) == Write(e, PutUint32(header))
WriteInt32(e, i) == Write(e, PutUint32(i))
WriteFloat32(e, f) == Write(e, PutUint32(f))

writeHeader(e, header) == WriteHeader(e, header)

-----------------------------------------------------------------------------
(* Types: what reflect reports for a value's static type *)

SignedKinds == {"int8", "int16", "int32", "int64"}
UnsignedKinds == {"uint8", "uint16", "uint32", "uint64"}
WideKinds == {"int", "uint", "int64", "uint64"}
FloatKinds == {"float32", "float64"}
SliceTypes == {"[]int32", "[]uint32", "[]int64", "[]int", "[]float32", "[]float64",
               "[]string", "[]interface{}"}
MapTypes == {"map[string]string", "map[string]interface{}", "map[int32]string",
             "map[float32]string"}

\* reflect.Type.Kind
Kind(T) ==
    CASE T = "Integer" -> "int32"
      [] T = "Float" -> "float32"
      [] T = "Vector3" -> "struct"
      [] T \in SliceTypes -> "slice"
      [] T \in MapTypes -> "map"
      [] T = "interface{}" -> "interface"
      [] OTHER -> T

\* reflect.Type.Elem of a slice type
Elem(T) ==
    CASE T = "[]int32" -> "int32"
      [] T = "[]uint32" -> "uint32"
      [] T = "[]int64" -> "int64"
      [] T = "[]int" -> "int"
      [] T = "[]float32" -> "float32"
      [] T = "[]float64" -> "float64"
      [] T = "[]string" -> "string"
      [] T = "[]interface{}" -> "interface{}"

\* v.Type().Implements(marshalerType): the types with a MarshalVariant method
Implements(T) == T \in {"Integer", "Float", "Vector3"}

\* reflect.Value.Int / Uint followed by int32(...): the low 32 bits
Int32Of(v) == IF Kind(v.type) \in WideKinds THEN v.v.lo ELSE v.v

\* reflect.Value.Float followed by float32(...): the nearest float32
Float32Of(v) == IF Kind(v.type) = "float64" THEN v.v.f32 ELSE v.v

\* v.Convert(integerType), v.Convert(floatType)
ConvertInteger(v) == [type |-> "Integer", v |-> Int32Of(v)]
ConvertFloat(v) == [type |-> "Float", v |-> Float32Of(v)]

\* Integer.MarshalVariant, Float.MarshalVariant, Vector3.MarshalVariant: the
\* writes go to a bytes.Buffer, which never fails
MarshalVariant(v) ==
    CASE v.type = "Integer" -> PutUint32(IntegerType) \o PutUint32(v.v)
      [] v.type = "Float" -> PutUint32(FloatType) \o PutUint32(v.v)
      [] v.type = "Vector3" ->
            PutUint32(Vector3Type) \o PutUint32(v.v.X) \o PutUint32(v.v.Y)
                \o PutUint32(v.v.Z)

-----------------------------------------------------------------------------
(* Sequencing. Bind(x, F) is F(x) with x evaluated once; AndThen(x, F) is    *)
(* the encoder's `if err := x; err != nil { return err }` followed by F on   *)
(* the encoder state x left.                                                 *)

Bind(x, F(_)) == CHOOSE y \in {F(w) : w \in {x}} : TRUE
AndThen(x, F(_)) == Bind(x, LAMBDA w : IF Failed(w) THEN w ELSE F(w.e))
Done(e) == [e |-> e, err |-> Nil]

-----------------------------------------------------------------------------
(* Encoder *)

\* the package-level paddingBuf: three zero bytes, only ever read
paddingBuf == <<0, 0, 0>>

\* writePadded with the padding taken as len mod 4
writePaddedShort(e, data) ==
    AndThen(Write(e, data), LAMBDA e1 :
        LET padding == Len(data) % 4
        IN  IF padding > 0 /\ padding < 4
            THEN Write(e1, Take(paddingBuf, padding))
            ELSE Done(e1))

writePadded(e, data) ==
    AndThen(Write(e, data), LAMBDA e1 :
        LET padding == 4 - (Len(data) % 4)
        IN  IF padding > 0 /\ padding < 4
            THEN Write(e1, Take(paddingBuf, padding))
            ELSE Done(e1))

encodeStr(e, s) ==
    AndThen(writeHeader(e, StringType), LAMBDA e1 :
    AndThen(writeHeader(e1, Len(s)), LAMBDA e2 :
    writePadded(e2, s)))

\* header |= 0x80000000; header |= 0x7FFFFFFF & elements, for a length n
\* (below 2^31, so the mask keeps it whole)
SharedHeader(n) == (n - CountMask) - 1

writeDictHeader(e, size) ==
    AndThen(writeHeader(e, DictionaryType), LAMBDA e1 :
    writeHeader(e1, SharedHeader(size)))

RECURSIVE encodeObj(_, _)
RECURSIVE IntegerArrayLoop(_, _, _)
RECURSIVE FloatArrayLoop(_, _, _)
RECURSIVE GenericArrayLoop(_, _, _)
RECURSIVE StructLoop(_, _, _)
RECURSIVE MapLoop(_, _, _, _)

\* for i := 0; i < n; i++ { WriteInt32(e.w, int32(v.Index(i).Int())) }
IntegerArrayLoop(e, a, i) ==
    IF i > Len(a) THEN Done(e)
    ELSE AndThen(WriteInt32(e, Int32Of(a[i])), LAMBDA e1 :
         IntegerArrayLoop(e1, a, i + 1))

\* for i := 0; i < n; i++ { WriteFloat32(e.w, float32(v.Index(i).Float())) }
FloatArrayLoop(e, a, i) ==
    IF i > Len(a) THEN Done(e)
    ELSE AndThen(WriteFloat32(e, Float32Of(a[i])), LAMBDA e1 :
         FloatArrayLoop(e1, a, i + 1))

\* for i := 0; i < n; i++ { e.encodeObj(v.Index(i)) }
GenericArrayLoop(e, a, i) ==
    IF i > Len(a) THEN Done(e)
    ELSE AndThen(encodeObj(e, a[i]), LAMBDA e1 :
         GenericArrayLoop(e1, a, i + 1))

encodeUIntegerArray(e, v) ==
    AndThen(writeHeader(e, IntegerArrayType), LAMBDA e1 :
    AndThen(writeHeader(e1, Len(v.v)), LAMBDA e2 :
    IntegerArrayLoop(e2, v.v, 1)))

encodeIntegerArray(e, v) ==
    AndThen(writeHeader(e, IntegerArrayType), LAMBDA e1 :
    AndThen(writeHeader(e1, Len(v.v)), LAMBDA e2 :
    IntegerArrayLoop(e2, v.v, 1)))

encodeFloatArray(e, v) ==
    AndThen(writeHeader(e, FloatArrayType), LAMBDA e1 :
    AndThen(writeHeader(e1, Len(v.v)), LAMBDA e2 :
    FloatArrayLoop(e2, v.v, 1)))

encodeGenericArray(e, v) ==
    AndThen(writeHeader(e, ArrayType), LAMBDA e1 :
    AndThen(writeHeader(e1, SharedHeader(Len(v.v))), LAMBDA e2 :
    GenericArrayLoop(e2, v.v, 1)))

encodeSlice(e, v) ==
    LET et == Kind(Elem(v.type))
    IN  CASE et \in UnsignedKinds -> encodeUIntegerArray(e, v)
          [] et \in SignedKinds -> encodeIntegerArray(e, v)
          [] et \in FloatKinds -> encodeFloatArray(e, v)
          [] OTHER -> encodeGenericArray(e, v)

\* the fields of a struct value are v.v: a sequence of [name, val]
StructLoop(e, fs, i) ==
    IF i > Len(fs) THEN Done(e)
    ELSE AndThen(encodeStr(e, fs[i].name), LAMBDA e1 :
         AndThen(encodeObj(e1, fs[i].val), LAMBDA e2 :
         StructLoop(e2, fs, i + 1)))

encodeStruct(e, v) ==
    Bind(writeDictHeader(e, Len(v.v)), LAMBDA h :
        IF Failed(h) THEN Done(h.e)    \* return nil
        ELSE StructLoop(h.e, v.v, 1))

\* v.MapKeys(): a map value's payload v.v is a function from keys to values;
\* the runtime hands the keys out in an unspecified order, here one fixed
\* order or its reverse (every order, for the maps of up to two keys)
RECURSIVE SeqOf(_)
SeqOf(S) == IF S = {} THEN <<>> ELSE LET x == CHOOSE y \in S : TRUE
                                     IN  <<x>> \o SeqOf(S \ {x})
Reverse(s) == [i \in 1..Len(s) |-> s[Len(s) + 1 - i]]
MapKeys(e, v) == IF e.rev THEN Reverse(SeqOf(DOMAIN v.v)) ELSE SeqOf(DOMAIN v.v)

\* for _, k := range keys { encodeObj(k); encodeObj(v.MapIndex(k)) }
MapLoop(e, v, keys, i) ==
    IF i > Len(keys) THEN Done(e)
    ELSE AndThen(encodeObj(e, keys[i]), LAMBDA e1 :
         AndThen(encodeObj(e1, v.v[keys[i]]), LAMBDA e2 :
         MapLoop(e2, v, keys, i + 1)))

encodeMap(e, v) ==
    Bind(MapKeys(e, v), LAMBDA keys :
    Bind(writeDictHeader(e, Len(keys)), LAMBDA h :
        IF Failed(h) THEN Done(h.e)    \* return nil
        ELSE MapLoop(h.e, v, keys, 1)))

encodeObj(e, v) ==
    IF Implements(v.type) THEN writePadded(e, MarshalVariant(v))
    ELSE LET k == Kind(v.type)
         IN  CASE k \in UnsignedKinds \cup SignedKinds -> encodeObj(e, ConvertInteger(v))
               [] k \in FloatKinds -> encodeObj(e, ConvertFloat(v))
               [] k = "string" -> encodeStr(e, v.v)
               [] k = "slice" -> encodeSlice(e, v)
               [] k = "struct" -> encodeStruct(e, v)
               [] k = "map" -> encodeMap(e, v)
               [] OTHER -> [e |-> e, err |-> ErrArg("unsupported kind", <<k>>)]

\* Encoder.Encode: reflect.ValueOf(i) is the value with its dynamic type
Encode(e, i) == encodeObj(e, i)

-----------------------------------------------------------------------------
(* Decoder: the reader r is [s, scratch]: s what is left of the stream and   *)
(* scratch the contents of the package-level discardPaddingBuf, which the    *)
(* padding reads overwrite. Every reader returns what it read, the error and *)
(* the reader after it.                                                      *)

NewReader(s, scratch) == [s |-> s, scratch |-> scratch]

\* the nil interface value
NoValue == [type |-> "nil", v |-> <<>>]

\* return nil, err
Fail(x) == [o |-> NoValue, err |-> x.err, r |-> x.r]
Return(o, r) == [o |-> o, err |-> Nil, r |-> r]

\* io.ReadAtLeast(r, buf, min) with len(buf) = min (and io.ReadFull): no
\* call to Read at all for min = 0, io.EOF at the end of the stream,
\* io.ErrUnexpectedEOF when it ends before min bytes
ReadAtLeast(r, min) ==
    IF min = 0 THEN [data |-> <<>>, err |-> Nil, r |-> r]
    ELSE IF Len(r.s) = 0 THEN [data |-> <<>>, err |-> Err("EOF"), r |-> r]
    ELSE IF Len(r.s) < min
         THEN [data |-> r.s, err |-> Err("unexpected EOF"), r |-> [r EXCEPT !.s = <<>>]]
    ELSE [data |-> Take(r.s, min), err |-> Nil, r |-> [r EXCEPT !.s = Drop(@, min)]]

\* binary.Read of one 32-bit word
readHeader(r) ==
    Bind(ReadAtLeast(r, 4), LAMBDA b :
        [header |-> IF ~Failed(b) THEN Uint32(b.data) ELSE 0, err |-> b.err, r |-> b.r])

ReadInt32(r) == readHeader(r)
ReadFloat32(r) == readHeader(r)

\* int(header): a header with bit 31 set is a size of 2^31 or more, which no
\* stream of the model holds; it is kept at 2^31 - 1, where reads fail alike
IntOf(header) == IF header < 0 THEN CountMask ELSE header

\* header & 0x7FFFFFFF
MaskCount(header) == IF header < 0 THEN (header + CountMask) + 1 ELSE header

\* copy(discardPaddingBuf, data): the bytes a read leaves in the buffer
CopyInto(scratch, data) ==
    [i \in 1..Len(scratch) |-> IF i <= Len(data) THEN data[i] ELSE scratch[i]]

discardPadding(r, size) ==
    LET padding == 4 - (size % 4)
    IN  IF padding > 0 /\ padding < 4
        THEN Bind(ReadAtLeast(r, padding), LAMBDA b :
                [err |-> b.err, r |-> [b.r EXCEPT !.scratch = CopyInto(@, b.data)]])
        ELSE [err |-> Nil, r |-> r]

decodeStr(r) ==
    Bind(readHeader(r), LAMBDA h :
        IF Failed(h) THEN Fail(h)
        ELSE Bind(ReadAtLeast(h.r, IntOf(h.header)), LAMBDA str :
             IF Failed(str) THEN Fail(str)
             ELSE \* discardPadding(r, size): the error it returns is dropped
                  Return([type |-> "string", v |-> str.data],
                         discardPadding(str.r, IntOf(h.header)).r)))

\* for i := range a { v, err := ReadInt32(r); a[i] = v }
RECURSIVE IntegerReadLoop(_, _, _)
IntegerReadLoop(r, size, a) ==
    IF Len(a) = size THEN [a |-> a, err |-> Nil, r |-> r]
    ELSE Bind(ReadInt32(r), LAMBDA w :
         IF Failed(w) THEN [a |-> <<>>, err |-> w.err, r |-> w.r]
         ELSE IntegerReadLoop(w.r, size, Append(a, [type |-> "int32", v |-> w.header])))

decodeIntegerArray(r) ==
    Bind(readHeader(r), LAMBDA h :
        IF Failed(h) THEN Fail(h)
        ELSE Bind(IntegerReadLoop(h.r, IntOf(h.header), <<>>), LAMBDA l :
             IF Failed(l) THEN Fail(l)
             ELSE Return([type |-> "[]int32", v |-> l.a], l.r)))

\* for i := range a { v, err := ReadFloat32(r); a[i] = v }
RECURSIVE FloatReadLoop(_, _, _)
FloatReadLoop(r, size, a) ==
    IF Len(a) = size THEN [a |-> a, err |-> Nil, r |-> r]
    ELSE Bind(ReadFloat32(r), LAMBDA w :
         IF Failed(w) THEN [a |-> <<>>, err |-> w.err, r |-> w.r]
         ELSE FloatReadLoop(w.r, size, Append(a, [type |-> "float32", v |-> w.header])))

decodeFloatArray(r) ==
    Bind(readHeader(r), LAMBDA h :
        IF Failed(h) THEN Fail(h)
        ELSE Bind(FloatReadLoop(h.r, IntOf(h.header), <<>>), LAMBDA l :
             IF Failed(l) THEN Fail(l)
             ELSE Return([type |-> "[]float32", v |-> l.a], l.r)))

\* only a string, or a value with a String method (no decoded value has one)
makeString(o) ==
    IF o.type = "string" THEN [s |-> o, err |-> Nil]
    ELSE [s |-> NoValue, err |-> ErrArg("cannot convert to string", <<o.type>>)]

\* an interface{} slot holding the value o
Iface(o) == [type |-> "interface{}", v |-> o]

RECURSIVE decodeObj(_)
RECURSIVE GenericReadLoop(_, _, _)
RECURSIVE DictLoop(_, _, _, _)

\* for i := range a { v, err := decodeObj(r); a[i] = v }
GenericReadLoop(r, size, a) ==
    IF Len(a) = size THEN [a |-> a, err |-> Nil, r |-> r]
    ELSE Bind(decodeObj(r), LAMBDA x :
         IF Failed(x) THEN [a |-> <<>>, err |-> x.err, r |-> x.r]
         ELSE GenericReadLoop(x.r, size, Append(a, Iface(x.o))))

decodeGenericArray(r) ==
    Bind(readHeader(r), LAMBDA h :
        IF Failed(h) THEN Fail(h)
        ELSE Bind(GenericReadLoop(h.r, MaskCount(h.header), <<>>), LAMBDA l :
             IF Failed(l) THEN Fail(l)
             ELSE Return([type |-> "[]interface{}", v |-> l.a], l.r)))

\* for i := uint32(0); i < elements; i++ { ...; d[k] = v }
DictLoop(r, elements, i, d) ==
    IF i = elements THEN [d |-> d, err |-> Nil, r |-> r]
    ELSE Bind(decodeObj(r), LAMBDA o :
         IF Failed(o) THEN [d |-> <<>>, err |-> o.err, r |-> o.r]
         ELSE Bind(makeString(o.o), LAMBDA k :
              IF Failed(k) THEN [d |-> <<>>, err |-> k.err, r |-> o.r]
              ELSE Bind(decodeObj(o.r), LAMBDA x :
                   IF Failed(x) THEN [d |-> <<>>, err |-> x.err, r |-> x.r]
                   ELSE DictLoop(x.r, elements, i + 1, (k.s :> Iface(x.o)) @@ d))))

decodeDict(r) ==
    Bind(readHeader(r), LAMBDA h :
        IF Failed(h) THEN Fail(h)
        ELSE Bind(DictLoop(h.r, MaskCount(h.header), 0, <<>>), LAMBDA l :
             IF Failed(l) THEN Fail(l)
             ELSE Return([type |-> "map[string]interface{}", v |-> l.d], l.r)))

\* Integer.UnmarshalVariant, Float.UnmarshalVariant, Vector3.UnmarshalVariant
UnmarshalVariant(T, data) ==
    CASE T = "Integer" -> [type |-> T, v |-> Int32FromBytes(SubSeq(data, 1, 4))]
      [] T = "Float" -> [type |-> T, v |-> Float32FromBytes(SubSeq(data, 1, 4))]
      [] T = "Vector3" -> [type |-> T,
                            v |-> [X |-> Float32FromBytes(SubSeq(data, 1, 4)),
                                   Y |-> Float32FromBytes(SubSeq(data, 5, 8)),
                                   Z |-> Float32FromBytes(SubSeq(data, 9, 12))]]

\* the three cases of decodeObj that read a fixed number of bytes
decodeFixed(r, T, n) ==
    Bind(ReadAtLeast(r, n), LAMBDA b :
        IF Failed(b) THEN Fail(b) ELSE Return(UnmarshalVariant(T, b.data), b.r))

\* the default case without its error: the nil value, silently
unsupportedTypeSilent(r, typ) == Return(NoValue, r)

\* the default case of decodeObj: no value, and an error carrying the tag
unsupportedType(r, typ) ==
    [o |-> NoValue, err |-> ErrArg("unsupported decode type", PutUint32(typ)), r |-> r]

decodeObj(r) ==
    Bind(readHeader(r), LAMBDA t :
        IF Failed(t) THEN Fail(t)
        ELSE CASE t.header = StringType -> decodeStr(t.r)
               [] t.header = IntegerType -> decodeFixed(t.r, "Integer", 4)
               [] t.header = FloatType -> decodeFixed(t.r, "Float", 4)
               [] t.header = DictionaryType -> decodeDict(t.r)
               [] t.header = Vector3Type -> decodeFixed(t.r, "Vector3", 12)
               [] t.header = IntegerArrayType -> decodeIntegerArray(t.r)
               [] t.header = FloatArrayType -> decodeFloatArray(t.r)
               [] t.header = ArrayType -> decodeGenericArray(t.r)
               [] OTHER -> unsupportedType(t.r, t.header))

-----------------------------------------------------------------------------
(* Structural mapping of the decoded tree onto a destination (the            *)
(* mapstructure library, from its contract). A destination is given by its   *)
(* shape: [type, fields], fields the [name, shape] of a struct's fields.      *)

IntKinds == SignedKinds \cup UnsignedKinds \cup {"int", "uint"}

MapElem(T) == IF T = "map[string]interface{}" THEN "interface{}" ELSE "string"
MapKey(T) ==
    CASE T = "map[int32]string" -> "int32"
      [] T = "map[float32]string" -> "float32"
      [] OTHER -> "string"

Plain(T) == [type |-> T, fields |-> <<>>]

RECURSIVE ShapeOf(_)
ShapeOf(v) ==
    IF v.type = "struct"
    THEN [type |-> "struct",
          fields |-> [i \in 1..Len(v.v) |->
                        [name |-> v.v[i].name, shape |-> ShapeOf(v.v[i].val)]]]
    ELSE Plain(v.type)

\* the value held in an interface{} slot, or the value itself
Unwrap(v) == IF v.type = "interface{}" THEN v.v ELSE v

\* a 32-bit integer x widened or narrowed to kind K
IntTo(K, x) ==
    CASE K \in WideKinds -> [hi |-> IF x < 0 THEN -1 ELSE 0, lo |-> x]
      [] K = "int16" -> ((x + 32768) % 65536) - 32768
      [] K = "uint16" -> x % 65536
      [] K = "int8" -> ((x + 128) % 256) - 128
      [] K = "uint8" -> x % 256
      [] OTHER -> x

RECURSIVE Zero(_)
Zero(shape) ==
    LET T == shape.type
        K == Kind(T)
    IN  CASE T = "struct" ->
                [type |-> T, v |-> [i \in 1..Len(shape.fields) |->
                    [name |-> shape.fields[i].name, val |-> Zero(shape.fields[i].shape)]]]
          [] T = "Vector3" -> [type |-> T, v |-> [X |-> 0, Y |-> 0, Z |-> 0]]
          [] T = "interface{}" -> [type |-> T, v |-> NoValue]
          [] K \in IntKinds -> [type |-> T, v |-> IntTo(K, 0)]
          [] K = "float64" -> [type |-> T, v |-> [f32 |-> 0, exact |-> TRUE]]
          [] K = "float32" -> [type |-> T, v |-> 0]
          [] OTHER -> [type |-> T, v |-> <<>>]

MappingError(T) == ErrArg("cannot map onto destination", <<T>>)

\* the results res of mapping the parts of a value: the first error among
\* them, or the value built from them
Collect(shape, res, Build(_)) ==
    IF \E i \in DOMAIN res : Failed(res[i])
    THEN [val |-> Zero(shape), err |-> res[CHOOSE i \in DOMAIN res : Failed(res[i])].err]
    ELSE [val |-> Build(res), err |-> Nil]

RECURSIVE mapstructureDecode(_, _)
mapstructureDecode(o, shape) ==
    LET d == Unwrap(o)
        T == shape.type
        K == Kind(T)
        bad == [val |-> Zero(shape), err |-> MappingError(T)]
        ok(x) == [val |-> x, err |-> Nil]
    IN  CASE T = "interface{}" -> ok(Iface(d))
          [] T = "Vector3" -> IF d.type = "Vector3" THEN ok(d) ELSE bad
          [] T = "struct" ->
                IF Kind(d.type) # "map" THEN bad
                ELSE LET key(i) == [type |-> "string", v |-> shape.fields[i].name]
                     IN  Bind([i \in 1..Len(shape.fields) |->
                                 IF key(i) \in DOMAIN d.v
                                 THEN mapstructureDecode(d.v[key(i)], shape.fields[i].shape)
                                 ELSE ok(Zero(shape.fields[i].shape))],
                              LAMBDA res : Collect(shape, res, LAMBDA rs :
                                 [type |-> T, v |-> [i \in 1..Len(rs) |->
                                    [name |-> shape.fields[i].name, val |-> rs[i].val]]]))
          [] K \in IntKinds ->
                IF Kind(d.type) \in IntKinds THEN ok([type |-> T, v |-> IntTo(K, Int32Of(d))])
                ELSE bad
          [] K \in FloatKinds ->
                IF Kind(d.type) \notin FloatKinds THEN bad
                ELSE IF K = "float64"
                     THEN ok([type |-> T, v |-> [f32 |-> Float32Of(d), exact |-> TRUE]])
                     ELSE ok([type |-> T, v |-> Float32Of(d)])
          [] K = "string" -> IF d.type = "string" THEN ok([type |-> T, v |-> d.v]) ELSE bad
          [] K = "slice" ->
                IF Kind(d.type) # "slice" THEN bad
                ELSE Bind([i \in 1..Len(d.v) |-> mapstructureDecode(d.v[i], Plain(Elem(T)))],
                          LAMBDA res : Collect(shape, res, LAMBDA rs :
                             [type |-> T, v |-> [i \in 1..Len(rs) |-> rs[i].val]]))
          [] K = "map" ->
                IF Kind(d.type) # "map" \/ MapKey(T) # "string" THEN bad
                ELSE Bind([k \in DOMAIN d.v |-> mapstructureDecode(d.v[k], Plain(MapElem(T)))],
                          LAMBDA res : Collect(shape, res, LAMBDA rs :
                             [type |-> T, v |-> [k \in DOMAIN rs |-> rs[k].val]]))
          [] OTHER -> bad

\* Decoder.Decode: decodeObj, then the mapping onto the destination, which
\* is left as allocated (its zero value) when decodeObj fails
Decode(r, shape) ==
    Bind(decodeObj(r), LAMBDA o :
        IF Failed(o) THEN [val |-> Zero(shape), err |-> o.err, r |-> o.r]
        ELSE Bind(mapstructureDecode(o.o, shape), LAMBDA m :
             [val |-> m.val, err |-> m.err, r |-> o.r]))

\* what Encode writes for v on a writer that never fails
Wire(v, rev) == Encode(NewEncoder(0, FALSE, rev), Unwrap(v)).e.buf

-----------------------------------------------------------------------------
(* The values the model encodes *)

MaxStrLen == 8
MaxEncodes == 2
MaxFailAt == 6
MaxFaultyEncodes == 1
MaxDecodes == 2
NThreads == 2
MaxConcLen == 3

\* the text "abc..." of n bytes
Text(n) == [i \in 1..n |-> 96 + i]
Str(n) == [type |-> "string", v |-> Text(n)]
Val(T, x) == [type |-> T, v |-> x]
Wide(T, hi, lo) == [type |-> T, v |-> [hi |-> hi, lo |-> lo]]
F64(f32, exact) == [type |-> "float64", v |-> [f32 |-> f32, exact |-> exact]]

\* the bits of the float32 values 4.0, 42.0, 54.0 and -5.0
F4 == 1082130432
F42 == 1109917696
F54 == 1113063424
FMinus5 == -1063256064

Vec == Val("Vector3", [X |-> F42, Y |-> F4, Z |-> FMinus5])

Scalars ==
    << Val("int32", 9), Val("int32", -3), Val("uint32", 43), Val("int8", -3),
      Val("uint8", 200), Val("Integer", -3),
      Wide("int64", 0, 9), Wide("int64", 1, 5), Wide("uint64", 0, 7),
      Wide("int", 0, 9), Wide("uint", 0, 9),
      Val("float32", F4), Val("Float", FMinus5), F64(F54, TRUE), F64(F42, FALSE),
      Vec >>

Texts == [i \in 1..(MaxStrLen + 1) |-> Str(i - 1)]

Slices ==
    << Val("[]int32", <<>>),
      Val("[]int32", <<Val("int32", 43), Val("int32", -3)>>),
      Val("[]uint32", <<Val("uint32", 43), Val("uint32", 215), Val("uint32", 16)>>),
      Val("[]int64", <<Wide("int64", 0, 9)>>),
      Val("[]int", <<Wide("int", 0, 9)>>),
      Val("[]float32", <<>>),
      Val("[]float32", <<Val("float32", F4), Val("float32", FMinus5)>>),
      Val("[]float64", <<F64(F54, TRUE)>>),
      Val("[]string", <<Str(1), Str(5)>>),
      Val("[]interface{}", <<>>),
      Val("[]interface{}", <<Iface(Val("Integer", 9)), Iface(Str(2))>>) >>

Maps ==
    << Val("map[string]string", <<>>),
      Val("map[string]string", (Str(2) :> Str(3))),
      Val("map[string]string", (Str(2) :> Str(3)) @@ (Str(1) :> Str(4))),
      Val("map[string]interface{}", (Str(1) :> Iface(Val("Integer", 9)))),
      Val("map[int32]string", (Val("int32", 1) :> Str(1))),
      Val("map[float32]string", (Val("float32", F4) :> Str(2))) >>

Field(n, x) == [name |-> Text(n), val |-> x]

Structs ==
    << Val("struct", <<>>),
      Val("struct", <<Field(1, Str(7)), Field(2, Val("Float", FMinus5)),
                      Field(3, Val("int32", 9))>>),
      Val("struct", <<Field(1, Str(3)),
                      Field(3, Val("struct", <<Field(1, Vec),
                           Field(2, Val("map[string]string", (Str(2) :> Str(3)))),
                           Field(5, Val("[]uint32", <<Val("uint32", 43)>>))>>)),
                      Field(2, Val("Integer", -3))>>),
      Val("struct", <<Field(1, Val("map[string]string", <<>>)), Field(2, Str(1))>>),
      Val("struct", <<Field(1, Wide("int", 0, 9))>>),
      Val("struct", <<Field(1, Iface(Str(1)))>>) >>

\* a sequence: values of different types are never compared with each other
Values == Scalars \o Texts \o Slices \o Maps \o Structs

\* whether the order of map iteration shows in the encoding of v
RECURSIVE HasWideMap(_)
HasWideMap(v) ==
    CASE Kind(v.type) = "map" /\ v.type # "Vector3" -> Cardinality(DOMAIN v.v) > 1
      [] v.type = "struct" -> \E i \in 1..Len(v.v) : HasWideMap(v.v[i].val)
      [] OTHER -> FALSE

-----------------------------------------------------------------------------
(* The state machine: Encode and Decode calls on one bytes.Buffer *)

Init ==
    /\ buf = <<>>
    /\ sent = <<>>
    /\ got = <<>>
    /\ threads = <<>>
    /\ discardPaddingBuf = <<0, 0, 0>>

\* one Encoder.Encode(v) call on a writer into buf that fails as failAt and
\* sticky say; the call's record keeps what it returned and what it wrote
EncodeCall(v, failAt, sticky, rev) ==
    \E x \in {Encode(NewEncoder(failAt, sticky, rev), v)} :
        /\ Len(sent) < MaxEncodes
        /\ buf' = buf \o x.e.buf
        /\ sent' = Append(sent, [v |-> v, err |-> x.err, out |-> x.e.buf, rev |-> rev,
                                 failed |-> x.e.failed, late |-> x.e.late])
        /\ UNCHANGED <<got, threads, discardPaddingBuf>>

\* Encode on the reliable buffer
EncodeOk ==
    \E i \in 1..Len(Values), rev \in BOOLEAN :
        /\ rev => HasWideMap(Values[i])
        /\ EncodeCall(Values[i], 0, FALSE, rev)

\* Encode on a writer whose failAt-th Write fails
EncodeFaulty ==
    \E i \in 1..Len(Values), failAt \in 1..MaxFailAt, sticky \in BOOLEAN :
        /\ Len(sent) < MaxFaultyEncodes
        /\ EncodeCall(Values[i], failAt, sticky, FALSE)

\* one Decoder.Decode call on buf into a destination of the given shape
DecodeCall(shape) ==
    \E x \in {Decode(NewReader(buf, discardPaddingBuf), shape)} :
        /\ buf' = x.r.s
        /\ discardPaddingBuf' = x.r.scratch
        /\ got' = Append(got, [val |-> x.val, err |-> x.err, before |-> buf,
                               consumed |-> Len(buf) - Len(x.r.s)])
        /\ UNCHANGED <<sent, threads>>

\* the caller decodes the next value it encoded, into a destination of that
\* value's shape, as long as every call so far returned nil
DecodeNext ==
    LET k == Len(got) + 1
    IN  /\ k <= Len(sent)
        /\ \A i \in 1..Len(sent) : ~Failed(sent[i])
        /\ \A i \in 1..Len(got) : ~Failed(got[i])
        /\ DecodeCall(ShapeOf(sent[k].v))

Next == EncodeOk \/ DecodeNext

Spec == Init /\ [][Next]_vars

NextFaulty == EncodeFaulty

\* the texts, and sequences of texts
TextValues ==
    Texts \o << Val("[]string", <<>>), Val("[]string", <<Str(1), Str(5)>>),
                Val("[]string", <<Str(6), Str(0), Str(3)>>) >>

\* Encode of a text or of a sequence of texts on the reliable buffer
EncodeText ==
    \E i \in 1..Len(TextValues) : EncodeCall(TextValues[i], 0, FALSE, FALSE)

NextText == EncodeText \/ DecodeNext

SpecText == Init /\ [][NextText]_vars

SpecFaulty == Init /\ [][NextFaulty]_vars

-----------------------------------------------------------------------------
(* Decode on streams that no Encode call wrote: a tag of any code at the     *)
(* places where the decoder reads one, and texts cut short in their padding  *)

\* ColorArrayType, the last code of the catalog
MaxTag == 28

SupportedTags == {IntegerType, FloatType, StringType, Vector3Type, DictionaryType,
                  ArrayType, IntegerArrayType, FloatArrayType}

\* every code of the catalog, and codes beyond it: 0x102 and 0x01000004 (low
\* byte a supported code), 0x40004, 0xFFFFFFFF and 0x80000002
TagSamples == (0..MaxTag) \cup {258, 262148, 16777220, -1, SharedHeader(IntegerType)}

\* what the stream holds before the decoder reads a tag: nothing; the header
\* of a 1-element sequence; of a 2-element sequence (shared bit unset) and
\* its first element; of a 1-pair record (a key is next); and of a 1-pair
\* record and its key (a value is next)
TagContexts ==
    { <<>>,
      PutUint32(ArrayType) \o PutUint32(SharedHeader(1)),
      PutUint32(ArrayType) \o PutUint32(2) \o Wire(Val("Integer", 9), FALSE),
      PutUint32(DictionaryType) \o PutUint32(SharedHeader(1)),
      PutUint32(DictionaryType) \o PutUint32(1) \o Wire(Str(2), FALSE) }

TagStreams ==
    { ctx \o PutUint32(t) \o tail :
        ctx \in TagContexts, t \in TagSamples, tail \in {<<>>, Wire(Val("Integer", 9), FALSE)} }

Padding(L) == IF L % 4 # 0 THEN 4 - (L % 4) ELSE 0

\* a text of L bytes as Encode writes it, less the last k bytes of its padding
CutText(L, k) == Take(Wire(Str(L), FALSE), (8 + L + Padding(L)) - k)

TextContexts ==
    { <<>>,
      PutUint32(ArrayType) \o PutUint32(SharedHeader(1)),
      PutUint32(DictionaryType) \o PutUint32(SharedHeader(1)) \o Wire(Str(2), FALSE) }

\* the streams that end inside the padding of a text (k >= 1), and whole texts
CutStreams(kmin) ==
    UNION { { ctx \o CutText(L, k) : ctx \in TextContexts, k \in kmin..Padding(L) } :
            L \in 0..MaxStrLen }

InitStreams ==
    /\ buf \in TagStreams \cup CutStreams(0)
    /\ sent = <<>>
    /\ got = <<>>
    /\ threads = <<>>
    /\ discardPaddingBuf = <<0, 0, 0>>

\* Decode into an interface{} destination, which takes any decoded value
DecodeAny ==
    /\ Len(got) < MaxDecodes
    /\ DecodeCall(Plain("interface{}"))

NextStreams == DecodeAny

SpecStreams == InitStreams /\ [][NextStreams]_vars

-----------------------------------------------------------------------------
(* Concurrent calls: each thread makes one call on a stream of its own, a    *)
(* Decode of a text or an Encode of a text, in steps at the accesses to the  *)
(* package-level buffers. A thread is [kind, pc, s, text, data, j]: s its    *)
(* stream, text the text it encodes, data the bytes its padding read copies  *)
(* into discardPaddingBuf, j the next byte to copy.                          *)

Threads == 1..NThreads

\* a text of L bytes on the wire, its padding bytes all `fill`
TextStream(L, fill) ==
    PutUint32(StringType) \o PutUint32(L) \o Text(L) \o [i \in 1..Padding(L) |-> fill]

ThreadInputs ==
    { [kind |-> "decode", pc |-> "called", s |-> TextStream(L, fill), text |-> <<>>,
       data |-> <<>>, j |-> 1] : L \in 0..MaxConcLen, fill \in {0, 255} }
    \cup
    { [kind |-> "encode", pc |-> "called", s |-> <<>>, text |-> Text(L),
       data |-> <<>>, j |-> 1] : L \in 0..MaxConcLen }

InitThreads ==
    /\ buf = <<>>
    /\ sent = <<>>
    /\ got = <<>>
    /\ threads \in [Threads -> ThreadInputs]
    /\ discardPaddingBuf = <<0, 0, 0>>

\* decodeObj and decodeStr up to the call of discardPadding, and in it up to
\* the Read into discardPaddingBuf[:padding]; all on the thread's own stream
DecodeBody(t) ==
    /\ threads[t].kind = "decode" /\ threads[t].pc = "called"
    /\ \E tag \in {readHeader(NewReader(threads[t].s, <<>>))} :
       \E h \in {readHeader(tag.r)} :
       \E str \in {ReadAtLeast(h.r, IntOf(h.header))} :
       LET padding == 4 - (IntOf(h.header) % 4)
           b == ReadAtLeast(str.r, padding)
           reads == ~Failed(tag) /\ tag.header = StringType /\ ~Failed(h) /\ ~Failed(str)
                      /\ padding > 0 /\ padding < 4 /\ b.data # <<>>
       IN  threads' = [threads EXCEPT
                ![t].pc = IF reads THEN "copying" ELSE "done",
                ![t].s = IF reads THEN b.r.s ELSE str.r.s,
                ![t].data = IF reads THEN b.data ELSE <<>>]
    /\ UNCHANGED <<buf, sent, got, discardPaddingBuf>>

\* the Read copies one more byte into the shared discardPaddingBuf
CopyByte(t) ==
    /\ threads[t].pc = "copying"
    /\ discardPaddingBuf' =
          [discardPaddingBuf EXCEPT ![threads[t].j] = threads[t].data[threads[t].j]]
    /\ threads' = [threads EXCEPT
          ![t].j = @ + 1,
          ![t].pc = IF threads[t].j = Len(threads[t].data) THEN "done" ELSE "copying"]
    /\ UNCHANGED <<buf, sent, got>>

\* encodeStr up to the padding write of writePadded, on the thread's stream
EncodeBody(t) ==
    /\ threads[t].kind = "encode" /\ threads[t].pc = "called"
    /\ LET L == Len(threads[t].text)
           padding == 4 - (L % 4)
       IN  threads' = [threads EXCEPT
                ![t].s = PutUint32(StringType) \o PutUint32(L) \o threads[t].text,
                ![t].pc = IF padding > 0 /\ padding < 4 THEN "padding" ELSE "done"]
    /\ UNCHANGED <<buf, sent, got, discardPaddingBuf>>

\* e.w.Write(paddingBuf[:padding]): a read of the shared paddingBuf
EncodePad(t) ==
    /\ threads[t].pc = "padding"
    /\ threads' = [threads EXCEPT
          ![t].s = @ \o Take(paddingBuf, 4 - (Len(threads[t].text) % 4)),
          ![t].pc = "done"]
    /\ UNCHANGED <<buf, sent, got, discardPaddingBuf>>

NextThreads ==
    \E t \in Threads : DecodeBody(t) \/ CopyByte(t) \/ EncodeBody(t) \/ EncodePad(t)

SpecThreads == InitThreads /\ [][NextThreads]_vars

-----------------------------------------------------------------------------
(* What the claims speak of *)

\* equality of two values, types first
RECURSIVE SameValue(_, _)
SameValue(a, b) ==
    /\ a.type = b.type
    /\ CASE a.type = "interface{}" -> SameValue(a.v, b.v)
         [] a.type = "struct" ->
                /\ Len(a.v) = Len(b.v)
                /\ \A i \in 1..Len(a.v) :
                      a.v[i].name = b.v[i].name /\ SameValue(a.v[i].val, b.v[i].val)
         [] Kind(a.type) = "slice" ->
                Len(a.v) = Len(b.v) /\ \A i \in 1..Len(a.v) : SameValue(a.v[i], b.v[i])
         [] Kind(a.type) = "map" ->
                DOMAIN a.v = DOMAIN b.v /\ \A k \in DOMAIN a.v : SameValue(a.v[k], b.v[k])
         [] OTHER -> a.v = b.v

\* the shapes the Value Classifier gives a wire representation: integers and
\* floats of any width, text, the 3-float record, sequences, records, mappings
\* with text keys, and nestings of these
RECURSIVE Classifiable(_)
Classifiable(v) ==
    CASE v.type = "interface{}" -> Classifiable(v.v)
      [] v.type = "struct" -> \A i \in 1..Len(v.v) : Classifiable(v.v[i].val)
      [] Kind(v.type) = "slice" -> \A i \in 1..Len(v.v) : Classifiable(v.v[i])
      [] Kind(v.type) = "map" ->
            MapKey(v.type) = "string" /\ \A k \in DOMAIN v.v : Classifiable(v.v[k])
      [] v.type = "nil" -> FALSE
      [] OTHER -> TRUE

\* the values the 32-bit wire scalars carry whole: no integer beyond 32 bits,
\* no float64 that is not a float32
RECURSIVE Exact(_)
Exact(v) ==
    CASE v.type = "interface{}" -> Exact(v.v)
      [] v.type = "struct" -> \A i \in 1..Len(v.v) : Exact(v.v[i].val)
      [] Kind(v.type) = "slice" -> \A i \in 1..Len(v.v) : Exact(v.v[i])
      [] Kind(v.type) = "map" -> \A k \in DOMAIN v.v : Exact(v.v[k])
      [] Kind(v.type) \in {"int", "int64"} -> v.v.hi = (IF v.v.lo < 0 THEN -1 ELSE 0)
      [] Kind(v.type) \in {"uint", "uint64"} -> v.v.hi = 0 /\ v.v.lo >= 0
      [] Kind(v.type) = "float64" -> v.v.exact
      [] OTHER -> TRUE

RECURSIVE Concat(_)
Concat(ss) == IF ss = <<>> THEN <<>> ELSE Head(ss) \o Concat(Tail(ss))

Zeros(n) == [i \in 1..n |-> 0]

AllSent == \A i \in 1..Len(sent) : ~Failed(sent[i])

\* C1: every supported value survives Encode followed by Decode into a
\* destination of its shape: both calls succeed and the destination equals it
C1_RoundTrip ==
    \A i \in 1..Len(sent) :
        (Classifiable(sent[i].v) /\ Exact(sent[i].v)) =>
            /\ ~Failed(sent[i])
            /\ i <= Len(got) => (~Failed(got[i]) /\ SameValue(got[i].val, sent[i].v))

\* C2: every native integer, of any width and signedness, is encoded as tag 2
\* and the low 32 bits of the value, and never refused
C2_IntegerClassified ==
    \A i \in 1..Len(sent) :
        (Kind(sent[i].v.type) \in IntKinds /\ ~Implements(sent[i].v.type)) =>
            /\ ~Failed(sent[i])
            /\ sent[i].out = PutUint32(IntegerType) \o PutUint32(Int32Of(sent[i].v))

\* C3: a sequence whose element type is neither integer nor float is encoded
\* as tag 21, the count with bit 31 set, and each element's own encoding
C3_GenericArray ==
    \A i \in 1..Len(sent) :
        LET v == sent[i].v
        IN  (/\ Kind(v.type) = "slice"
             /\ Kind(Elem(v.type)) \notin IntKinds \cup FloatKinds
             /\ Classifiable(v)) =>
                /\ ~Failed(sent[i])
                /\ sent[i].out = PutUint32(ArrayType) \o PutUint32(SharedHeader(Len(v.v)))
                      \o Concat([j \in 1..Len(v.v) |-> Wire(v.v[j], sent[i].rev)])

\* C4: Encode of a mapping with a key that is not text returns an error
C4_NonTextKeyRefused ==
    \A i \in 1..Len(sent) :
        (/\ Kind(sent[i].v.type) = "map"
         /\ MapKey(sent[i].v.type) # "string"
         /\ DOMAIN sent[i].v.v # {}) => Failed(sent[i])

\* a text s as the wire must hold it: the tag, the length word, the bytes
\* and the zero bytes that bring it to a multiple of 4
AlignedText(s) ==
    PutUint32(StringType) \o PutUint32(Len(s)) \o s \o Zeros(Padding(Len(s)))

\* C8: a text of L bytes is written as the tag, the length word L, the L
\* bytes and 4 - L mod 4 zero bytes when L mod 4 is not 0 (none otherwise),
\* a multiple of 4 bytes after the tag, also as an element of a sequence;
\* decoding it consumes exactly those bytes
C8_TextAligned ==
    \A i \in 1..Len(sent) :
        LET v == sent[i].v
            want == IF v.type = "string" THEN AlignedText(v.v)
                    ELSE PutUint32(ArrayType) \o PutUint32(SharedHeader(Len(v.v)))
                            \o Concat([j \in 1..Len(v.v) |-> AlignedText(v.v[j].v)])
        IN  (v.type \in {"string", "[]string"} /\ ~Failed(sent[i])) =>
                /\ sent[i].out = want
                /\ (Len(sent[i].out) - 4) % 4 = 0
                /\ (AllSent /\ i <= Len(got)) =>
                      (~Failed(got[i]) /\ got[i].consumed = Len(want))

\* a text whose length is not a multiple of 4 was encoded, then another value,
\* and the text has been decoded, leaving the other value's bytes
C8_Witness ==
    /\ Len(sent) = 2 /\ Len(got) = 1 /\ AllSent
    /\ sent[1].v.type = "string" /\ Len(sent[1].v.v) % 4 = 1
    /\ ~Failed(got[1]) /\ buf = sent[2].out /\ buf # <<>>

\* C10: after successful Encode calls V1..Vn on one stream, the Decode calls
\* succeed in that order, each consumes exactly the bytes written for its
\* value and returns it, and the stream is empty after the last
C10_Framing ==
    AllSent =>
        /\ \A i \in 1..Len(got) :
              /\ ~Failed(got[i])
              /\ got[i].consumed = Len(sent[i].out)
              /\ Exact(sent[i].v) => SameValue(got[i].val, sent[i].v)
        /\ Len(got) = Len(sent) => buf = <<>>

\* C5: a Decode that meets the end of the stream inside the padding of a text
\* returns the read error, never the text
C5_PaddingErrorSurfaced ==
    \A i \in 1..Len(got) :
        got[i].before \in CutStreams(1) => got[i].err.code \in {"EOF", "unexpected EOF"}

\* C6: an Encode during which a write fails returns an error and writes no more
C6_WriteErrorSurfaced ==
    \A i \in 1..Len(sent) : sent[i].failed => (Failed(sent[i]) /\ sent[i].late = 0)

IsPrefix(p, q) == Len(p) <= Len(q) /\ Take(q, Len(p)) = p

\* C7: a tag outside {2, 3, 4, 7, 20, 21, 23, 24}, first in the stream or at
\* a nested element, key or value, makes Decode return the error that carries
\* that tag, and the destination stays as it was allocated
C7_TagRejected ==
    \A i \in 1..Len(got) :
        \A ctx \in TagContexts, t \in TagSamples \ SupportedTags :
            IsPrefix(ctx \o PutUint32(t), got[i].before) =>
                /\ got[i].err.code = "unsupported decode type"
                /\ got[i].err.detail = PutUint32(t)
                /\ got[i].val.type = "interface{}" /\ got[i].val.v.type = "nil"

\* a Decode met tag 5 where the value of a record's pair was due, and refused it
C7_Witness ==
    \E i \in 1..Len(got) :
        /\ IsPrefix(PutUint32(DictionaryType) \o PutUint32(1) \o Wire(Str(2), FALSE)
                        \o PutUint32(5), got[i].before)
        /\ got[i].err.code = "unsupported decode type"

\* the shared locations a thread's call is writing
Writing(t) == IF threads[t].pc = "copying" THEN 1..Len(threads[t].data) ELSE {}

\* C9: no two concurrent calls write the same shared location
C9_NoConflict ==
    \A t1, t2 \in DOMAIN threads : t1 # t2 => Writing(t1) \cap Writing(t2) = {}

====
